---- MODULE Spec2Model ----
(***************************************************************************)
(* A model of instancebuilder (src/src/lib.rs): the type-indexed registry  *)
(* InstanceBuilder, its lookups, and the construction protocol             *)
(* FromInstanceBuilder, with build<T>() run as a call stack of             *)
(* try_from_builder frames.                                                *)
(***************************************************************************)
EXTENDS Naturals, Sequences, FiniteSets

VARIABLES data, impls, stack, ret, aborted, last, built, inserted

vars == <<data, impls, stack, ret, aborted, last, built, inserted>>

(***************************************************************************)
(* The universe of the model: types, values, and the depth of the stack.   *)
(***************************************************************************)

\* The frames the call stack holds before it is exhausted.
StackLimit == 4

\* The types a caller stores: two structs with the same single field, key.
StorableTypes == {"TestConfig", "OtherConfig"}

\* The types that implement FromInstanceBuilder.
Targets == {"TestImplementation", "Outer", "Inner"}

\* The strings a key field or an error message holds.
Keys == {"help me!", "k2"}

\* A value of TestConfig or of OtherConfig: { key: String }.
Values == [key : Keys]

\* Faulty variant: a token of the shape of the type, shared by structs of
\* the same fields.
TypeIdOfStructural(d) ==
    CASE d \in StorableTypes -> 100
      [] OTHER -> 200

\* TypeId::of::<D>(): a token that differs for every two distinct types.
TypeIdOf(d) ==
    CASE d = "TestConfig" -> 101
      [] d = "OtherConfig" -> 102
      [] d = "TestImplementation" -> 201
      [] d = "Outer" -> 202
      [] d = "Inner" -> 203

\* type_name::<D>(): the path of the type, as the error message shows it.
type_name(d) ==
    CASE d = "TestConfig" -> "instancebuilder::tests::TestConfig"
      [] d = "OtherConfig" -> "instancebuilder::tests::OtherConfig"
      [] d = "TestImplementation" -> "instancebuilder::tests::TestImplementation"
      [] d = "Outer" -> "instancebuilder::tests::Outer"
      [] d = "Inner" -> "instancebuilder::tests::Inner"

(***************************************************************************)
(* Option, Result and BuilderError.                                        *)
(***************************************************************************)

None == [tag |-> "None"]

Some(v) == [tag |-> "Some", val |-> v]

Ok(v) == [tag |-> "Ok", val |-> v]

Err(e) == [tag |-> "Err", err |-> e]

DataDoesNotExist(name) == [variant |-> "DataDoesNotExist", ty |-> name]

Other(msg) == [variant |-> "Other", msg |-> msg]

\* No callee has returned to the running frame.
NoRet == [tag |-> "NoRet"]

\* The build call has not returned.
Pending == [tag |-> "Pending"]

\* No build has completed.
NoBuild == [tag |-> "NoBuild"]

(***************************************************************************)
(* The registry: HashMap<TypeId, Box<dyn Any + Send + Sync>> as a set of   *)
(* entries, each a key and a box that carries the type of its content.     *)
(***************************************************************************)

\* Box::new(data) as Box<dyn Any>: the value with the TypeId of its type.
BoxNew(d, v) == [ty |-> TypeIdOf(d), val |-> v]

\* HashMap::get.
HashMapGet(m, k) ==
    IF \E e \in m : e.key = k
    THEN Some((CHOOSE e \in m : e.key = k).box)
    ELSE None

\* Faulty variant: the entry of an equal key is kept beside the new one.
HashMapInsertKeepBoth(m, k, b) == m \cup {[key |-> k, box |-> b]}

\* Faulty variant: the entry of an equal key is kept and the new one dropped.
HashMapInsertIfAbsent(m, k, b) ==
    IF \E e \in m : e.key = k THEN m ELSE m \cup {[key |-> k, box |-> b]}

\* HashMap::insert: the entry of an equal key is replaced.
HashMapInsert(m, k, b) ==
    {e \in m : e.key # k} \cup {[key |-> k, box |-> b]}

\* <dyn Any>::downcast_ref::<D>(): the content, when its type is D.
downcast_ref(b, d) ==
    IF b.ty = TypeIdOf(d) THEN Some(b.val) ELSE None

\* InstanceBuilder::data_opt::<D>().
data_opt(d) ==
    LET found == HashMapGet(data, TypeIdOf(d))
    IN  IF found.tag = "Some" THEN downcast_ref(found.val, d) ELSE None

\* Faulty variant: the absent value is reported as Other.
DataOther(d) ==
    LET o == data_opt(d)
    IN  IF o.tag = "Some" THEN Ok(o.val) ELSE Err(Other(type_name(d)))

\* Faulty variant: the error does not name the requested type.
DataUnnamed(d) ==
    LET o == data_opt(d)
    IN  IF o.tag = "Some" THEN Ok(o.val) ELSE Err(DataDoesNotExist("D"))

\* InstanceBuilder::data::<D>(): data_opt, or the error that names D.
Data(d) ==
    LET o == data_opt(d)
    IN  IF o.tag = "Some"
        THEN Ok(o.val)
        ELSE Err(DataDoesNotExist(type_name(d)))

(***************************************************************************)
(* The construction logic of the target types.  TestImplementation is the  *)
(* source's; Outer and Inner are implementers of the trait, each with one  *)
(* of the shapes an implementer is expected to have.                       *)
(***************************************************************************)

\* let config: &C = builder.data()?; Ok(Self { inner: config.key.clone() })
DataRecipe(c) == [kind |-> "data", dep |-> c]

\* let inner: T = builder.build()?; Ok(Self { inner })
BuildRecipe(t) == [kind |-> "build", dep |-> t]

\* Err(BuilderError::Other(msg))
FailRecipe == [kind |-> "fail", msg |-> "construction failed"]

Recipes ==
    {DataRecipe(c) : c \in StorableTypes}
        \cup {BuildRecipe(t) : t \in Targets}
        \cup {FailRecipe}

\* The implementations of FromInstanceBuilder a program may hold.
Implementations ==
    {f \in [Targets -> Recipes] :
        f["TestImplementation"] = DataRecipe("TestConfig")}

\* Faulty variant: the result of the last completed build of t is reused.
TryFromDataCached(t) ==
    IF built # NoBuild /\ built.ty = t
    THEN built.res
    ELSE LET r == Data(impls[t].dep)
         IN  IF r.tag = "Err" THEN r ELSE Ok([ty |-> t, inner |-> r.val.key])

\* Faulty variant: the instance holds a fixed key, not the config's.
TryFromDataDefaultKey(t) ==
    LET r == Data(impls[t].dep)
    IN  IF r.tag = "Err" THEN r ELSE Ok([ty |-> t, inner |-> "k2"])

\* try_from_builder of a target that requires a config and keeps its key.
TryFromData(t) ==
    LET r == Data(impls[t].dep)
    IN  IF r.tag = "Err" THEN r ELSE Ok([ty |-> t, inner |-> r.val.key])

\* try_from_builder of a target that only fails.
TryFromFail(t) == Err(Other(impls[t].msg))

\* The rest of try_from_builder once the nested build has returned r: the ?
\* returns an Err as it is, an Ok becomes the field of the new instance.
TryFromBuilt(t, r) ==
    IF r.tag = "Err" THEN r ELSE Ok([ty |-> t, inner |-> r.val])

\* Faulty variant: build replaces an error by one that names its target.
BuildReturnNamesTarget(t, r) ==
    IF r.tag = "Err" THEN Err(DataDoesNotExist(type_name(t))) ELSE r

\* build::<T>() returns what T::try_from_builder(self) returned.
BuildReturn(t, r) == r

\* Faulty variant: build refuses a target that is under construction.
BuildEnterDetectsCycle(stk, t) ==
    IF \E i \in 1..Len(stk) : stk[i] = t
    THEN [stack |-> stk, ret |-> Err(Other("cycle"))]
    ELSE [stack |-> Append(stk, t), ret |-> NoRet]

\* build::<T>() calls T::try_from_builder(self): a new frame, whatever the
\* frames below it are.
BuildEnter(stk, t) == [stack |-> Append(stk, t), ret |-> NoRet]

(***************************************************************************)
(* The state after InstanceBuilder::new(), and the caller's operations.    *)
(***************************************************************************)

Init ==
    /\ data = {}
    /\ impls \in Implementations
    /\ stack = <<>>
    /\ ret = NoRet
    /\ aborted = FALSE
    /\ last = [op |-> "new"]
    /\ built = NoBuild
    /\ inserted = {}

\* What a lookup remembers of the call before it.
Brief(l) ==
    IF l.op = "insert"
    THEN [op |-> "insert", ty |-> l.ty, val |-> l.val]
    ELSE [op |-> l.op]

\* The caller is between two calls.
Idle == stack = <<>> /\ ~aborted

\* InstanceBuilder::insert::<D>(v).  dropped is what HashMap::insert
\* returns and insert discards; inserted is the set of the types inserted
\* since new().
Insert(d, v) ==
    /\ Idle
    /\ data' = HashMapInsert(data, TypeIdOf(d), BoxNew(d, v))
    /\ last' = [op |-> "insert", ty |-> d, val |-> v,
                dropped |-> HashMapGet(data, TypeIdOf(d))]
    /\ inserted' = inserted \cup {d}
    /\ UNCHANGED <<impls, stack, ret, aborted, built>>

\* Faulty variant: the lookup takes the entry out of the registry.
CallDataOptTakes(d) ==
    /\ Idle
    /\ last' = [op |-> "get", ty |-> d, res |-> data_opt(d),
                after |-> Brief(last)]
    /\ data' = {e \in data : e.key # TypeIdOf(d)}
    /\ UNCHANGED <<impls, stack, ret, aborted, built, inserted>>

\* A call of InstanceBuilder::data_opt::<D>().
CallDataOpt(d) ==
    /\ Idle
    /\ last' = [op |-> "get", ty |-> d, res |-> data_opt(d),
                after |-> Brief(last)]
    /\ UNCHANGED <<data, impls, stack, ret, aborted, built, inserted>>

\* A call of InstanceBuilder::data::<D>().
CallData(d) ==
    /\ Idle
    /\ last' = [op |-> "require", ty |-> d, res |-> Data(d),
                after |-> Brief(last)]
    /\ UNCHANGED <<data, impls, stack, ret, aborted, built, inserted>>

\* A call of InstanceBuilder::build::<T>() by the caller.
CallBuild(t) ==
    /\ Idle
    /\ stack' = BuildEnter(stack, t).stack
    /\ ret' = BuildEnter(stack, t).ret
    /\ last' = [op |-> "build", ty |-> t, res |-> Pending, before |-> built]
    /\ UNCHANGED <<data, impls, aborted, built, inserted>>

(***************************************************************************)
(* The steps of a build in progress.                                       *)
(***************************************************************************)

Running == stack # <<>> /\ ~aborted

Top == stack[Len(stack)]

\* The running frame returns r from build: to the frame below it, or, from
\* the first frame, to the caller.
Return(r) ==
    IF Len(stack) = 1
    THEN /\ stack' = <<>>
         /\ ret' = NoRet
         /\ last' = [last EXCEPT !.res = r]
         /\ built' = [ty |-> last.ty, res |-> r, data |-> data]
    ELSE /\ stack' = SubSeq(stack, 1, Len(stack) - 1)
         /\ ret' = r
         /\ UNCHANGED <<last, built>>

\* try_from_builder of a target that requires a config runs to its end.
ConstructFromData ==
    /\ Running
    /\ ret = NoRet
    /\ impls[Top].kind = "data"
    /\ Return(BuildReturn(Top, TryFromData(Top)))
    /\ UNCHANGED <<data, impls, aborted, inserted>>

\* try_from_builder of a target that only fails runs to its end.
ConstructFail ==
    /\ Running
    /\ ret = NoRet
    /\ impls[Top].kind = "fail"
    /\ Return(BuildReturn(Top, TryFromFail(Top)))
    /\ UNCHANGED <<data, impls, aborted, inserted>>

\* try_from_builder of a target that builds another calls build for it.
NestedBuild ==
    /\ Running
    /\ ret = NoRet
    /\ impls[Top].kind = "build"
    /\ Len(stack) < StackLimit
    /\ stack' = BuildEnter(stack, impls[Top].dep).stack
    /\ ret' = BuildEnter(stack, impls[Top].dep).ret
    /\ UNCHANGED <<data, impls, aborted, last, built, inserted>>

\* The call of the nested build finds the stack exhausted: the process
\* aborts, and no call returns.
StackOverflow ==
    /\ Running
    /\ ret = NoRet
    /\ impls[Top].kind = "build"
    /\ Len(stack) >= StackLimit
    /\ aborted' = TRUE
    /\ UNCHANGED <<data, impls, stack, ret, last, built, inserted>>

\* The nested build has returned: try_from_builder runs to its end.
ResumeAfterBuild ==
    /\ Running
    /\ ret # NoRet
    /\ Return(BuildReturn(Top, TryFromBuilt(Top, ret)))
    /\ UNCHANGED <<data, impls, aborted, inserted>>

BuildStep ==
    \/ ConstructFromData
    \/ ConstructFail
    \/ NestedBuild
    \/ StackOverflow
    \/ ResumeAfterBuild

Next ==
    \/ \E d \in StorableTypes, v \in Values : Insert(d, v)
    \/ \E d \in StorableTypes : CallDataOpt(d)
    \/ \E d \in StorableTypes : CallData(d)
    \/ \E t \in Targets : CallBuild(t)
    \/ BuildStep

Spec == Init /\ [][Next]_vars

\* Every call runs to its return before the caller goes on: a build in
\* progress takes its next step.
FairSpec == Spec /\ WF_vars(BuildStep)

(***************************************************************************)
(* The properties.  last is the caller's most recent call with what it     *)
(* returned; a lookup also holds the call before it (after), a build the   *)
(* build completed before it (before).                                     *)
(***************************************************************************)

\* The boxes the registry holds under the key of type d.
StoredUnder(d) == {e.box : e \in {x \in data : x.key = TypeIdOf(d)}}

\* A value of type d with key k is stored.
Stores(d, k) == BoxNew(d, [key |-> k]) \in StoredUnder(d)

\* The build the caller asked for has returned.
BuildDone == last.op = "build" /\ last.res # Pending

\* C1: a get<D>() that follows insert<D>(v), in whatever state the registry
\* was before, returns Some(v).
C1_InsertThenGet ==
    (last.op = "get" /\ last.after.op = "insert" /\ last.after.ty = last.ty)
        => last.res = Some(last.after.val)

\* C1's case: get<D>() right after insert<D>(v) replaced an earlier value,
\* with the other type stored too.
C1_Witness ==
    /\ last.op = "get"
    /\ last.after.op = "insert"
    /\ last.after.ty = last.ty
    /\ last.res = Some(last.after.val)
    /\ inserted = StorableTypes

\* C2: the registry holds at most one entry per key, and after insert<D>(v)
\* the only value stored for D is v: the value it displaced is gone.
C2_OneValuePerType ==
    /\ \A e1 \in data, e2 \in data : e1.key = e2.key => e1 = e2
    /\ last.op = "insert" =>
           /\ StoredUnder(last.ty) = {BoxNew(last.ty, last.val)}
           /\ data_opt(last.ty) = Some(last.val)

\* C2's case: insert<D>(v2) displaced a different value v1 of the same type.
C2_Witness ==
    /\ last.op = "insert"
    /\ last.dropped.tag = "Some"
    /\ last.dropped.val.val # last.val
    /\ last.dropped.val \notin StoredUnder(last.ty)

\* C3: for a type D never inserted since new(), get<D>() returns None and
\* require<D>() returns the DataDoesNotExist error with the name of D.
C3_AbsentWhenNeverInserted ==
    /\ (last.op = "get" /\ last.ty \notin inserted) => last.res = None
    /\ (last.op = "require" /\ last.ty \notin inserted) =>
           last.res = Err(DataDoesNotExist(type_name(last.ty)))

\* C3's case: require<D>() failed for a type never inserted while the other
\* type is stored.
C3_Witness ==
    /\ last.op = "require"
    /\ last.ty \notin inserted
    /\ inserted # {}
    /\ last.res.tag = "Err"

\* C4: insert<A>(v) leaves get<B>() as it was for every type B other than A.
C4_InsertChangesOnlyItsType ==
    [][last'.op = "insert" =>
          \A b \in StorableTypes \ {last'.ty} : data_opt(b)' = data_opt(b)]_vars

\* C4's case: get<B>() is absent right after insert<A>(v), B never inserted,
\* the value of A being one a B could hold.
C4_Witness ==
    /\ last.op = "get"
    /\ last.after.op = "insert"
    /\ last.after.ty # last.ty
    /\ last.ty \notin inserted
    /\ last.after.val \in Values
    /\ last.res = None

\* C5: every step that is not an insert (a get, a require, a call of build,
\* a step of a build in progress, nested or not, returning Ok or Err) leaves
\* the registry as it is.
C5_OnlyInsertMutates ==
    [][last'.op # "insert" => data' = data]_vars

\* C5's case: a nested build has failed on a registry that holds a value.
C5_Witness ==
    /\ BuildDone
    /\ impls[last.ty].kind = "build"
    /\ last.res.tag = "Err"
    /\ data # {}

\* C6: with a value of C with key k stored, build<T>() for a T that requires
\* C and keeps its key returns Ok(T { inner: k }).
C6_BuildKeepsKey ==
    (BuildDone /\ impls[last.ty].kind = "data") =>
        \A k \in Keys :
            Stores(impls[last.ty].dep, k) =>
                last.res = Ok([ty |-> last.ty, inner |-> k])

\* C6's case: the test's, build<TestImplementation>() with
\* TestConfig { key: "help me!" } stored.
C6_Witness ==
    /\ BuildDone
    /\ last.ty = "TestImplementation"
    /\ Stores("TestConfig", "help me!")
    /\ last.res = Ok([ty |-> "TestImplementation", inner |-> "help me!"])

\* C7: when the config C that T requires was never inserted, build<T>()
\* returns the DataDoesNotExist error with the name of C.
C7_BuildNamesMissingConfig ==
    (BuildDone /\ impls[last.ty].kind = "data"
        /\ impls[last.ty].dep \notin inserted) =>
        last.res = Err(DataDoesNotExist(type_name(impls[last.ty].dep)))

\* C7's case: build<TestImplementation>() has failed on the empty registry.
C7_Witness ==
    /\ BuildDone
    /\ last.ty = "TestImplementation"
    /\ inserted = {}
    /\ data = {}
    /\ last.res.tag = "Err"

\* What the running frame's build returns in the step s -> s'.
Returned(s_stack, l_next, r_next) ==
    IF Len(s_stack) = 1 THEN l_next.res ELSE r_next

\* C8: a target that builds another and does not catch returns the Err its
\* nested build returned, as it is, and Ok when the nested build returned
\* Ok; so build<Outer>() with Inner requiring C is Ok(Outer { Inner { k } })
\* with C stored, names C when C was never inserted, and is Inner's own
\* Other error when Inner only fails.
C8_NestedPropagates ==
    /\ [][(stack # <<>> /\ ~aborted /\ ret # NoRet) =>
             /\ ret.tag = "Err" => Returned(stack, last', ret') = ret
             /\ ret.tag = "Ok" =>
                    Returned(stack, last', ret')
                        = Ok([ty |-> stack[Len(stack)], inner |-> ret.val])]_vars
    /\ [](\A c \in StorableTypes :
             (BuildDone /\ impls[last.ty].kind = "build"
                 /\ impls[impls[last.ty].dep] = DataRecipe(c)) =>
                 /\ c \notin inserted =>
                        last.res = Err(DataDoesNotExist(type_name(c)))
                 /\ \A k \in Keys :
                        Stores(c, k) =>
                            last.res = Ok([ty |-> last.ty,
                                           inner |-> [ty |-> impls[last.ty].dep,
                                                      inner |-> k]]))
    /\ []((BuildDone /\ impls[last.ty].kind = "build"
              /\ impls[impls[last.ty].dep] = FailRecipe) =>
              last.res = Err(Other(FailRecipe.msg)))

\* C8's case: build<Outer>() has returned the error of build<Inner>(), whose
\* config was never inserted.
C8_Witness ==
    /\ BuildDone
    /\ last.ty = "Outer"
    /\ impls["Outer"] = BuildRecipe("Inner")
    /\ impls["Inner"].kind = "data"
    /\ impls["Inner"].dep \notin inserted
    /\ last.res = Err(DataDoesNotExist(type_name(impls["Inner"].dep)))

\* C9: a build<T>() that follows an earlier build<T>() returns the same as
\* the earlier one when the registry holds what it held then, and is made
\* from the registry as it is now: it keeps the key now stored, and succeeds
\* where the earlier one failed for a config stored since.
C9_BuildNeverCaches ==
    (BuildDone /\ last.before # NoBuild /\ last.before.ty = last.ty) =>
        /\ last.before.data = data => last.res = last.before.res
        /\ impls[last.ty].kind = "data" =>
               \A k \in Keys :
                   Stores(impls[last.ty].dep, k) =>
                       /\ last.res.tag = "Ok"
                       /\ last.res.val.inner = k

\* C9's case: build<T>() failed, its config was inserted, and build<T>()
\* succeeded.
C9_Witness ==
    /\ BuildDone
    /\ last.before # NoBuild
    /\ last.before.ty = last.ty
    /\ last.before.res.tag = "Err"
    /\ last.before.data # data
    /\ last.res.tag = "Ok"

RECURSIVE ChainEnds(_, _)
\* The chain of nested builds from t ends within n more targets.
ChainEnds(t, n) ==
    IF impls[t].kind # "build"
    THEN TRUE
    ELSE IF n = 0 THEN FALSE ELSE ChainEnds(impls[t].dep, n - 1)

\* The chain of nested builds from t is finite: it meets no target twice.
Acyclic(t) == ChainEnds(t, Cardinality(Targets))

\* C10: a build whose chain of nested builds is a cycle never returns and
\* recurses until the stack is exhausted; a build whose chain is acyclic
\* does not exhaust the stack and returns.
C10_CyclesRecurseAcyclicReturns ==
    /\ []((last.op = "build" /\ ~Acyclic(last.ty)) => last.res = Pending)
    /\ ((last.op = "build" /\ ~Acyclic(last.ty))
           ~> Len(stack) >= StackLimit)
    /\ []((last.op = "build" /\ Acyclic(last.ty)) => ~aborted)
    /\ ((last.op = "build" /\ Acyclic(last.ty)) ~> BuildDone)

\* C10's case: build<Outer>(), whose Inner builds Outer, has exhausted the
\* stack without having returned.
C10_Witness ==
    /\ last.op = "build"
    /\ last.ty = "Outer"
    /\ impls["Outer"] = BuildRecipe("Inner")
    /\ impls["Inner"] = BuildRecipe("Outer")
    /\ aborted
    /\ last.res = Pending

====
